---- MODULE Spec2Model ----
(***************************************************************************)
(* Model of the PLSE v2 generation-and-validation core:                    *)
(*   src/src/plse/validation.py  (validators, sandbox, pipeline)           *)
(*   src/src/plse/generator.py   (PLSEGenerator)                           *)
(*   src/main.py                 (TrainingDataGenerator)                   *)
(*                                                                         *)
(* validation.py holds the module text twice, one copy pasted into the     *)
(* middle of the other; the model follows the complete copy, lines 39-337. *)
(***************************************************************************)
EXTENDS Integers, Sequences, FiniteSets, TLC

VARIABLES
    \* ---- ValidationPipeline / SafeExecutionValidator ----
    usePylint,      \* ValidationPipeline.__init__ argument use_pylint
    cand,           \* the candidate the caller holds: [code, tests]
    pipePc,         \* position of ValidationPipeline.validate
    pipeIdx,        \* index of the next validator in self.validators
    stageLog,       \* history: the results of the validators invoked so far
    pipeRet,        \* the ValidationResult returned by the pipeline
    revalidating,   \* history: this call re-validates an accepted outcome's code
    ppc,            \* position of SafeExecutionValidator.validate (parent)
    child,          \* state of the spawned child process
    chanBuf,        \* the child's queue buffer (items put, not yet in the pipe)
    chanPipe,       \* the items the parent can read from the queue's pipe
    sigterm,        \* SIGTERM sent to the child and not yet acted upon
    reaped,         \* the parent has collected the child's exit status
    plog,           \* history: the process operations the parent performed
    execLog,        \* history: the source units handed to the sandbox
    svCode,         \* the code argument of SafeExecutionValidator.validate
    svRet,          \* the ValidationResult returned by the sandbox validator
    atDeadline,     \* history: the child's state when the deadline expired
    \* ---- PLSEGenerator / TrainingDataGenerator ----
    validate,         \* PLSEGenerator.validate
    generated_hashes, \* PLSEGenerator.generated_hashes
    genCalls,         \* number of generate() calls made on the generator
    lastPattern,      \* the pattern argument of the last generate() call
    lastSkip,         \* the skip_validation argument of that call
    lastInst,         \* what _instantiate_parameters came to in that call
    genRet,           \* what that call came to (GenOutcome)
    prevSeen,         \* history: seenCodes as it was before that call
    seenCodes,        \* history: the code texts that reached the hash check
    returnedCodes,    \* history: the code texts generate() has returned
    returnedTwice,    \* history: generate() returned a text it had returned
    exRet,            \* what the last generate_example() call came to
    prevAttempts,     \* history: the attempts that reached the hash check earlier
    workerRet,        \* what generate() came to in the last check_single_pattern()
    prevRejected,     \* history: the code texts whose validation, in a call before
                      \* the last one, did not end in acceptance
    \* ---- CustomLinter ----
    lintCode,         \* the code argument of the last CustomLinter.run() call
    lintRet,          \* what that call came to
    lintPrevCode,     \* history: the code argument of the call before it
    lintPrevRet,      \* history: what the call before it came to
    \* ---- PLSEGenerator.generate_batch ----
    batchRet,         \* what the last generate_batch() call came to
    \* ---- TrainingDataGenerator.generate_dataset ----
    dsPc,             \* where generate_dataset() stands
    dsN,              \* its n_examples argument
    dsExamples,       \* len(examples)
    dsAttempts,       \* attempts
    dsWritten         \* what became of the output file

pipeVars == <<usePylint, cand, pipePc, pipeIdx, stageLog, pipeRet, revalidating>>
svVars   == <<ppc, child, chanBuf, chanPipe, sigterm, reaped, plog, execLog,
             svCode, svRet, atDeadline>>
genVars  == <<validate, generated_hashes, genCalls, lastPattern, lastSkip,
             lastInst, genRet, prevSeen, seenCodes, returnedCodes,
             returnedTwice, exRet, prevAttempts, workerRet, prevRejected>>
lintVars == <<lintCode, lintRet, lintPrevCode, lintPrevRet>>
batchVars == <<batchRet>>
dsVars   == <<dsPc, dsN, dsExamples, dsAttempts, dsWritten>>
vars     == <<pipeVars, svVars, genVars, lintVars, batchVars, dsVars>>

----------------------------------------------------------------------------
(* Bounds *)

\* largest number of style / deep-lint findings a candidate has
MaxFindings == 6
\* largest number of test snippets a candidate carries
MaxTests == 2
\* largest number of generate() calls made on one generator
MaxCalls == 2

(* Program constants *)

\* SafeExecutionValidator.__init__: timeout = 2
DefaultTimeout == 2
\* Flake8Validator: errors[:5]
Flake8Cap == 5
\* PylintValidator: errors[:3]
PylintCap == 3

----------------------------------------------------------------------------
(* Values *)

None == [none |-> TRUE]

\* A diagnostic message, by the text the code formats it from.
Diag(kind, text, n) == [kind |-> kind, text |-> text, n |-> n]

\* ValidationResult(valid, code, errors=[]) as the validators construct it.
ValidationResult(valid, code, errors) ==
    [valid |-> valid, code |-> code, errors |-> errors]

\* The exceptions a candidate may raise inside exec().  isException is
\* isinstance(e, Exception): SystemExit and KeyboardInterrupt are
\* BaseException but not Exception.
Exceptions ==
    { [type |-> "AssertionError", msg |-> "",     isException |-> TRUE],
      [type |-> "ValueError",     msg |-> "bad",  isException |-> TRUE],
      [type |-> "SyntaxError",    msg |-> "invalid syntax", isException |-> TRUE],
      [type |-> "SystemExit",     msg |-> "1",    isException |-> FALSE] }

\* What running the code does: "ok" returns, "raise" raises exc, "loop"
\* never returns, "stubborn" never returns and ignores SIGTERM, "die" ends
\* the process at once (os._exit, a fatal signal).
RunKinds == {"ok", "raise", "loop", "stubborn", "die"}

FindingCounts == {0, 1, MaxFindings}

\* A code text, by what the tools the validators call report about it.
\* big: the result the child posts does not fit the pipe's buffer.
Codes ==
    { c \in [syntax : BOOLEAN, style : FindingCounts, lint : FindingCounts,
             run : RunKinds, exc : Exceptions \cup {None}, big : BOOLEAN] :
        /\ (c.run = "raise") <=> (c.exc # None)
        /\ c.big => (c.run = "raise" /\ c.exc.isException)
        \* text that does not parse also fails flake8 (E999) and raises
        \* SyntaxError from exec(); text that parses does not
        /\ ~c.syntax => (c.style > 0 /\ c.lint > 0 /\ c.run = "raise"
                         /\ c.exc.type = "SyntaxError")
        /\ c.syntax => (c.exc = None \/ c.exc.type # "SyntaxError") }

TestKinds == {"pass", "fail"}

RECURSIVE SeqsUpTo(_, _)
SeqsUpTo(S, n) ==
    IF n = 0 THEN {<<>>}
    ELSE LET shorter == SeqsUpTo(S, n - 1)
         IN  shorter \cup { Append(s, x) : s \in shorter, x \in S }

Candidates == [code : Codes, tests : SeqsUpTo(TestKinds, MaxTests)]

Take(s, n) == SubSeq(s, 1, IF Len(s) < n THEN Len(s) ELSE n)

----------------------------------------------------------------------------
(* Stage 3: SafeExecutionValidator and the child it spawns *)

ChildAlive == child \in {"exec", "flush", "flushed"}

\* exec(code, {}) returns; queue.put(None) hands the item to the queue's
\* feeder thread.
Child_ExecReturns ==
    /\ child = "exec" /\ svCode.run = "ok"
    /\ chanBuf' = <<None>>
    /\ child' = "flush"
    /\ UNCHANGED <<dsVars, batchVars, lintVars, genVars, pipeVars, ppc, chanPipe, sigterm, reaped, plog, execLog,
                   svCode, svRet, atDeadline>>

\* exec(code, {}) raises.  `except Exception` catches Exception subclasses
\* only and puts the exception; anything else leaves the target function
\* and ends the process with nothing put.
Child_ExecRaises ==
    /\ child = "exec" /\ svCode.run = "raise"
    /\ IF svCode.exc.isException
       THEN chanBuf' = <<svCode.exc>> /\ child' = "flush"
       ELSE chanBuf' = chanBuf /\ child' = "exited"
    /\ UNCHANGED <<dsVars, batchVars, lintVars, genVars, pipeVars, ppc, chanPipe, sigterm, reaped, plog, execLog,
                   svCode, svRet, atDeadline>>

\* The process ends inside exec() without unwinding.
Child_Dies ==
    /\ child = "exec" /\ svCode.run = "die"
    /\ child' = "exited"
    /\ UNCHANGED <<dsVars, batchVars, lintVars, genVars, pipeVars, ppc, chanBuf, chanPipe, sigterm, reaped, plog,
                   execLog, svCode, svRet, atDeadline>>

\* The feeder thread writes the buffered item to the pipe.  A write larger
\* than the pipe's buffer completes only when the other end reads, and the
\* parent reads only after the child is gone: it never completes.
Child_Flush ==
    /\ child = "flush" /\ ~svCode.big
    /\ chanPipe' = chanBuf
    /\ chanBuf' = <<>>
    /\ child' = "flushed"
    /\ UNCHANGED <<dsVars, batchVars, lintVars, genVars, pipeVars, ppc, sigterm, reaped, plog, execLog, svCode, svRet, atDeadline>>

\* The child has joined its feeder thread and exits.
Child_Exit ==
    /\ child = "flushed"
    /\ child' = "exited"
    /\ UNCHANGED <<dsVars, batchVars, lintVars, genVars, pipeVars, ppc, chanBuf, chanPipe, sigterm, reaped, plog,
                   execLog, svCode, svRet, atDeadline>>

\* SIGTERM ends a child that has not changed the signal's disposition.
Child_Killed ==
    /\ sigterm /\ ChildAlive /\ svCode.run # "stubborn"
    /\ child' = "exited"
    /\ sigterm' = FALSE
    /\ chanBuf' = <<>>
    /\ UNCHANGED <<dsVars, batchVars, lintVars, genVars, pipeVars, ppc, chanPipe, reaped, plog, execLog, svCode, svRet, atDeadline>>

\* A child that ignores SIGTERM goes on running.
Child_IgnoresSigterm ==
    /\ sigterm /\ ChildAlive /\ svCode.run = "stubborn"
    /\ sigterm' = FALSE
    /\ UNCHANGED <<dsVars, batchVars, lintVars, genVars, pipeVars, ppc, child, chanBuf, chanPipe, reaped, plog,
                   execLog, svCode, svRet, atDeadline>>

\* queue = Queue(); process = Process(...); process.start()
SV_Start(code) ==
    /\ svCode' = code
    /\ child' = "exec"
    /\ chanBuf' = <<>>
    /\ chanPipe' = <<>>
    /\ sigterm' = FALSE
    /\ reaped' = FALSE
    /\ plog' = <<"start">>
    /\ svRet' = None
    /\ atDeadline' = "none"
    /\ ppc' = "join_timeout"

\* process.join(timeout=self.timeout) returns because the child has exited.
SV_JoinExited ==
    /\ ppc = "join_timeout" /\ child = "exited"
    /\ reaped' = TRUE
    /\ plog' = Append(plog, "join_timeout")
    /\ ppc' = "is_alive"
    /\ UNCHANGED <<dsVars, batchVars, lintVars, genVars, pipeVars, child, chanBuf, chanPipe, sigterm, execLog,
                   svCode, svRet, atDeadline>>

\* process.join(timeout=self.timeout) returns because the deadline expired.
SV_JoinDeadline ==
    /\ ppc = "join_timeout" /\ child # "exited"
    /\ plog' = Append(plog, "join_timeout")
    /\ ppc' = "is_alive"
    /\ atDeadline' = child
    /\ UNCHANGED <<dsVars, batchVars, lintVars, genVars, pipeVars, child, chanBuf, chanPipe, sigterm, reaped,
                   execLog, svCode, svRet>>

\* if process.is_alive(): is_alive() polls the child and collects its exit
\* status when it has exited.
SV_IsAlive ==
    /\ ppc = "is_alive"
    /\ plog' = Append(plog, "is_alive")
    /\ IF child # "exited"
       THEN ppc' = "terminate" /\ reaped' = reaped
       ELSE ppc' = "get_nowait" /\ reaped' = TRUE
    /\ UNCHANGED <<dsVars, batchVars, lintVars, genVars, pipeVars, child, chanBuf, chanPipe, sigterm, execLog,
                   svCode, svRet, atDeadline>>

\* Variant: the timeout result is returned right after terminate(), with
\* no join().
SV_Terminate_NoJoin ==
    /\ ppc = "terminate"
    /\ sigterm' = (child # "exited")
    /\ plog' = Append(plog, "terminate")
    /\ svRet' = [valid |-> FALSE, code |-> svCode,
                 errors |-> <<Diag("Execution error",
                     "Timeout after seconds (possible infinite loop).",
                     DefaultTimeout)>>]
    /\ ppc' = "returned"
    /\ UNCHANGED <<dsVars, batchVars, lintVars, genVars, pipeVars, child, chanBuf, chanPipe, reaped, execLog, svCode, atDeadline>>

\* process.terminate()
SV_Terminate ==
    /\ ppc = "terminate"
    /\ sigterm' = (child # "exited")
    /\ plog' = Append(plog, "terminate")
    /\ ppc' = "join"
    /\ UNCHANGED <<dsVars, batchVars, lintVars, genVars, pipeVars, child, chanBuf, chanPipe, reaped, execLog,
                   svCode, svRet, atDeadline>>

TimeoutResult(code) ==
    ValidationResult(FALSE, code,
        <<Diag("Execution error", "Timeout after seconds (possible infinite loop).",
               DefaultTimeout)>>)

\* process.join() blocks until the child has exited; then the timeout
\* result is returned.
SV_Join ==
    /\ ppc = "join" /\ child = "exited"
    /\ reaped' = TRUE
    /\ plog' = Append(plog, "join")
    /\ svRet' = TimeoutResult(svCode)
    /\ ppc' = "returned"
    /\ UNCHANGED <<dsVars, batchVars, lintVars, genVars, pipeVars, child, chanBuf, chanPipe, sigterm, execLog, svCode, atDeadline>>

\* Variant: an empty queue is taken for success.
QueueResult_EmptyIsSuccess(code, pipe) ==
    IF pipe # <<>> /\ Head(pipe) # None /\ Head(pipe).isException
    THEN ValidationResult(FALSE, code,
            <<Diag("Execution error", Head(pipe).msg, 0)>>)
    ELSE ValidationResult(TRUE, code, <<>>)

\* The result built from queue.get_nowait(): the item read, or Empty.
QueueResult(code, pipe) ==
    IF pipe = <<>>
    THEN ValidationResult(FALSE, code,
            <<Diag("Execution error",
                   "Process finished but no result was returned.", 0)>>)
    ELSE IF Head(pipe) # None /\ Head(pipe).isException
         THEN ValidationResult(FALSE, code,
                <<Diag("Execution error", Head(pipe).msg, 0)>>)
         ELSE ValidationResult(TRUE, code, <<>>)

\* result = queue.get_nowait() and the three returns that follow it
SV_GetNowait ==
    /\ ppc = "get_nowait"
    /\ svRet' = QueueResult(svCode, chanPipe)
    /\ chanPipe' = IF chanPipe = <<>> THEN chanPipe ELSE Tail(chanPipe)
    /\ plog' = Append(plog, "get_nowait")
    /\ ppc' = "returned"
    /\ UNCHANGED <<dsVars, batchVars, lintVars, genVars, pipeVars, child, chanBuf, sigterm, reaped, execLog, svCode, atDeadline>>

\* A caller invokes SafeExecutionValidator().validate(code) directly.  The
\* histories of an earlier pipeline call are dropped with it.
SV_Call(code) ==
    /\ ppc \in {"idle", "returned"} /\ pipePc \in {"idle", "done"}
    /\ SV_Start(code)
    /\ execLog' = <<"main">>
    /\ cand' = None
    /\ pipePc' = "idle"
    /\ pipeIdx' = 1
    /\ stageLog' = <<>>
    /\ pipeRet' = None
    /\ revalidating' = FALSE
    /\ UNCHANGED <<dsVars, batchVars, lintVars, usePylint, genVars>>

----------------------------------------------------------------------------
(* Stages 1 and 2: the static validators *)

\* ast.parse(code)
SyntaxValidator(code) ==
    IF code.syntax
    THEN ValidationResult(TRUE, code, <<>>)
    ELSE ValidationResult(FALSE, code, <<Diag("Syntax error", "", 0)>>)

\* Variant: all statistics lines are returned.
Flake8Validator_NoCap(code) ==
    IF code.style = 0
    THEN ValidationResult(TRUE, code, <<>>)
    ELSE ValidationResult(FALSE, code,
            [i \in 1..code.style |-> Diag("Flake8", "", i)])

\* report.total_errors == 0, else the first five statistics lines
Flake8Validator(code) ==
    IF code.style = 0
    THEN ValidationResult(TRUE, code, <<>>)
    ELSE ValidationResult(FALSE, code,
            Take([i \in 1..code.style |-> Diag("Flake8", "", i)], Flake8Cap))

\* a 10.00/10 rating or no output, else the first three report lines
PylintValidator(code) ==
    IF code.lint = 0
    THEN ValidationResult(TRUE, code, <<>>)
    ELSE ValidationResult(FALSE, code,
            Take([i \in 1..code.lint |-> Diag("Pylint", "", i)], PylintCap))

StaticValidate(name, code) ==
    CASE name = "SyntaxValidator" -> SyntaxValidator(code)
      [] name = "Flake8Validator" -> Flake8Validator(code)
      [] name = "PylintValidator" -> PylintValidator(code)

----------------------------------------------------------------------------
(* ValidationPipeline *)

\* Variant: the sandbox is the first validator of the list.
Validators_SandboxFirst(use_pylint) ==
    <<"SafeExecutionValidator", "SyntaxValidator", "Flake8Validator">>
      \o (IF use_pylint THEN <<"PylintValidator">> ELSE <<>>)

\* ValidationPipeline.__init__: self.validators
Validators(use_pylint) ==
    <<"SyntaxValidator", "Flake8Validator">>
      \o (IF use_pylint THEN <<"PylintValidator">> ELSE <<>>)
      \o <<"SafeExecutionValidator">>

\* Variant: the loop records a failure but goes on to the next validator.
PipelineAfterStage_NoFailFast(name, result) ==
    /\ stageLog' = Append(stageLog, [stage |-> name, result |-> result])
    /\ pipeRet' = IF ~result.valid THEN result ELSE pipeRet
    /\ pipePc' = "loop"
    /\ pipeIdx' = pipeIdx + 1

\* One turn of `for validator in self.validators` once the validator has
\* returned result: `if not result.valid: return result`.
PipelineAfterStage(name, result) ==
    /\ stageLog' = Append(stageLog, [stage |-> name, result |-> result])
    /\ IF ~result.valid
       THEN pipeRet' = result /\ pipePc' = "done" /\ pipeIdx' = pipeIdx
       ELSE pipeRet' = pipeRet /\ pipePc' = "loop" /\ pipeIdx' = pipeIdx + 1

\* Entry of pipeline.validate(code) for the code of candidate c.
PipeEnter(c) ==
    /\ cand' = c
    /\ pipeIdx' = 1
    /\ stageLog' = <<>>
    /\ pipeRet' = None
    /\ pipePc' = "loop"
    \* the queue and process of an earlier call are gone with that call
    /\ ppc' = "idle"
    /\ child' = "none"
    /\ chanBuf' = <<>>
    /\ chanPipe' = <<>>
    /\ sigterm' = FALSE
    /\ reaped' = FALSE
    /\ plog' = <<>>
    /\ execLog' = <<>>
    /\ svCode' = None
    /\ svRet' = None
    /\ atDeadline' = "none"

\* A caller invokes pipeline.validate(code) with the code of candidate c;
\* the signature takes the code alone.
Pipe_Call(c) ==
    /\ pipePc \in {"idle", "done"} /\ ppc \in {"idle", "returned"}
    /\ PipeEnter(c)
    /\ revalidating' = FALSE
    /\ UNCHANGED <<dsVars, batchVars, lintVars, usePylint, genVars>>

\* A caller passes the code of an accepted outcome, validation_result.code,
\* through the same pipeline again.
Pipe_Revalidate ==
    /\ pipePc = "done" /\ pipeRet.valid
    /\ PipeEnter([code |-> pipeRet.code, tests |-> cand.tests])
    /\ revalidating' = TRUE
    /\ UNCHANGED <<dsVars, batchVars, lintVars, usePylint, genVars>>

\* The loop reaches a static validator and calls it.
Pipe_StaticStage ==
    /\ pipePc = "loop" /\ pipeIdx <= Len(Validators(usePylint))
    /\ Validators(usePylint)[pipeIdx] # "SafeExecutionValidator"
    /\ PipelineAfterStage(Validators(usePylint)[pipeIdx],
                          StaticValidate(Validators(usePylint)[pipeIdx], cand.code))
    /\ UNCHANGED <<dsVars, batchVars, lintVars, genVars, usePylint, revalidating, cand, svVars>>

\* The loop reaches the SafeExecutionValidator and calls it.
Pipe_SandboxStage ==
    /\ pipePc = "loop" /\ pipeIdx <= Len(Validators(usePylint))
    /\ Validators(usePylint)[pipeIdx] = "SafeExecutionValidator"
    /\ SV_Start(cand.code)
    /\ execLog' = Append(execLog, "main")
    /\ pipePc' = "sandbox"
    /\ UNCHANGED <<dsVars, batchVars, lintVars, genVars, usePylint, revalidating, cand, pipeIdx, stageLog, pipeRet>>

\* The SafeExecutionValidator returns to the loop.
Pipe_SandboxReturn ==
    /\ pipePc = "sandbox" /\ ppc = "returned"
    /\ PipelineAfterStage("SafeExecutionValidator", svRet)
    /\ ppc' = "idle"
    /\ UNCHANGED <<dsVars, batchVars, lintVars, genVars, usePylint, cand, child, chanBuf, chanPipe, sigterm, reaped,
                   plog, execLog, svCode, svRet, atDeadline, revalidating>>

\* Variant: the exhausted loop returns an outcome that is not accepted.
Pipe_Return_Unaccepted ==
    /\ pipePc = "loop" /\ pipeIdx > Len(Validators(usePylint))
    /\ pipeRet' = ValidationResult(FALSE, cand.code, <<>>)
    /\ pipePc' = "done"
    /\ UNCHANGED <<dsVars, batchVars, lintVars, genVars, usePylint, revalidating, cand, pipeIdx, stageLog, svVars>>

\* The loop is exhausted: return ValidationResult(True, code)
Pipe_Return ==
    /\ pipePc = "loop" /\ pipeIdx > Len(Validators(usePylint))
    /\ pipeRet' = ValidationResult(TRUE, cand.code, <<>>)
    /\ pipePc' = "done"
    /\ UNCHANGED <<dsVars, batchVars, lintVars, genVars, usePylint, revalidating, cand, pipeIdx, stageLog, svVars>>

----------------------------------------------------------------------------
(* Template text.  A text is a sequence of tokens; the empty string is the  *)
(* empty sequence.  A token is a piece of literal text, white space, a      *)
(* Jinja2 expression or an unbalanced Jinja2 block tag.                     *)

Sep == "\n\n"
WhiteSpace == {" ", Sep}
VarTokens == {"{{n}}"}
\* an expression that takes an attribute of an undefined attribute: Jinja2
\* raises UndefinedError when it is rendered
BadAttrTokens == {"{{n.a.b}}"}
\* an unbalanced block tag: from_string raises TemplateSyntaxError
MalformedTokens == {"{%"}

VarName(tok) == CASE tok = "{{n}}" -> "n"

\* jinja_env.from_string(text): compiling fails on a malformed template
FromStringFails(text) ==
    \E i \in 1..Len(text) : text[i] \in MalformedTokens

RECURSIVE RenderTokens(_, _)
\* template.render(context): every expression is replaced by str() of its
\* value; a name missing from the context renders as nothing
RenderTokens(text, context) ==
    IF text = <<>> THEN <<>>
    ELSE LET tok == Head(text)
             out == IF tok \in VarTokens
                    THEN IF VarName(tok) \in DOMAIN context
                         THEN <<ToString(context[VarName(tok)])>>
                         ELSE <<>>
                    ELSE <<tok>>
         IN  out \o RenderTokens(Tail(text), context)

\* The exception from_string(text).render(context) raises, or "" for none.
RenderError(text, context) ==
    IF FromStringFails(text) THEN "TemplateSyntaxError"
    ELSE IF \E i \in 1..Len(text) : text[i] \in BadAttrTokens
         THEN "UndefinedError"
         ELSE ""

RECURSIVE Join(_)
\* "\n\n".join(parts)
Join(parts) ==
    IF parts = <<>> THEN <<>>
    ELSE IF Len(parts) = 1 THEN parts[1]
    ELSE parts[1] \o <<Sep>> \o Join(Tail(parts))

RECURSIVE LStrip(_)
LStrip(text) ==
    IF text # <<>> /\ Head(text) \in WhiteSpace THEN LStrip(Tail(text)) ELSE text

RECURSIVE RStrip(_)
RStrip(text) ==
    IF text # <<>> /\ text[Len(text)] \in WhiteSpace
    THEN RStrip(SubSeq(text, 1, Len(text) - 1))
    ELSE text

\* str.strip()
Strip(text) == RStrip(LStrip(text))

\* An Optional[str] field holds None or a string, Str(text).
Str(text) == [text |-> text]

RECURSIVE FilterNone(_)
\* filter(None, parts): drops None and the empty string
FilterNone(parts) ==
    IF parts = <<>> THEN <<>>
    ELSE IF Head(parts) = None \/ Head(parts) = Str(<<>>)
         THEN FilterNone(Tail(parts))
         ELSE <<Head(parts).text>> \o FilterNone(Tail(parts))

\* The list generate() passes to filter(None, ...), in the order written.
CodeParts(components) ==
    <<components.imports,
      components.data_setup,
      components.training_loop,
      components.evaluation,
      components.model_definition>>

\* full_template_str = "\n\n".join(filter(None, [...]))
FullTemplateStr(components) == Join(FilterNone(CodeParts(components)))

\* The tokens of the model's texts, in a fixed order; a text is encoded as
\* the sequence of its tokens' positions.
Alphabet ==
    <<" ", Sep, "{{n}}", "{{n.a.b}}", "{%", "1", "2", "3",
      "import math", "data = [1]", "def square(x): return x * x",
      "y = square(2)", "print(y)", "x =", "assert x ==",
      "Write code", "Set x to", "Square a number">>

\* full_code.encode()
Encode(text) ==
    [i \in 1..Len(text) |->
        CHOOSE k \in 1..Len(Alphabet) : Alphabet[k] = text[i]]

\* hashlib.md5(...).hexdigest(): a function of the encoded text, taken to
\* be free of collisions on the texts of the model.
Md5HexDigest(bytes) == [md5 |-> bytes]

----------------------------------------------------------------------------
(* PLSEGenerator *)

Range(f) == { f[i] : i \in DOMAIN f }

\* options = param.constraints.get("options", [param.default])
\*               if param.constraints else [param.default]
\* constraints is None or a dict; None and the empty dict are false.
ChoiceOptions(param) ==
    IF param.constraints # None /\ DOMAIN param.constraints # {}
    THEN IF "options" \in DOMAIN param.constraints
         THEN param.constraints.options
         ELSE <<param.default>>
    ELSE <<param.default>>

\* The values context[name] may get in _instantiate_parameters.
ParamValues(param) ==
    IF param.type = "choice" THEN Range(ChoiceOptions(param)) ELSE {param.default}

\* _instantiate_parameters(pattern): the contexts it may return, or the
\* exception it raises; random.choice of an empty list raises IndexError.
instantiate_parameters(pattern) ==
    IF pattern.parameters = <<>>
    THEN { [raised |-> "", context |-> <<>>] }
    ELSE IF \E name \in DOMAIN pattern.parameters :
                ParamValues(pattern.parameters[name]) = {}
         THEN { [raised |-> "IndexError", context |-> <<>>] }
         ELSE { [raised |-> "", context |-> ctx] :
                  ctx \in { c \in [DOMAIN pattern.parameters ->
                                     UNION { ParamValues(pattern.parameters[n]) :
                                               n \in DOMAIN pattern.parameters }] :
                              \A name \in DOMAIN pattern.parameters :
                                 c[name] \in ParamValues(pattern.parameters[name]) } }

\* The parameters, after self, of ValidationPipeline.validate.
PipelineValidateParams == <<"code">>

\* Python's call rule for a function whose parameters have no defaults:
\* the call binds when every parameter gets exactly one argument and no
\* argument is left over; otherwise it raises TypeError.
CallBinds(params, positional, keywords) ==
    /\ positional <= Len(params)
    /\ keywords = { params[i] : i \in (positional + 1)..Len(params) }

\* The answers a call of the pipeline's validate can give where it binds:
\* accepted or rejected.  Where it does not bind there is no answer.
PipelineVerdicts(positional, keywords) ==
    IF CallBinds(PipelineValidateParams, positional, keywords)
    THEN BOOLEAN ELSE {FALSE}

\* Variant: the instruction is hashed with the code.
HashInput_WithInstruction(full_code, rendered_instruction, rendered_tests) ==
    full_code \o rendered_instruction

\* The text whose digest is the fingerprint: hashlib.md5(full_code.encode())
HashInput(full_code, rendered_instruction, rendered_tests) == full_code

\* Variant: the index is one set shared by all generators.
NewGeneratedHashes_Shared(existing) == existing

\* PLSEGenerator.__init__: self.generated_hashes = set(), whatever the
\* indexes of the generators that exist already hold.
NewGeneratedHashes(existing) == {}

\* Variant: the fingerprint of an admitted text is not recorded.
RecordHash_Forgets(hashes, code_hash) == hashes

\* self.generated_hashes.add(code_hash)
RecordHash(hashes, code_hash) == hashes \cup {code_hash}

\* Variant: the fingerprint of a text that validation did not accept is
\* taken out of the index again.
HashesAfterValidation_DiscardsRejected(hashes, code_hash, accepted) ==
    IF accepted THEN RecordHash(hashes, code_hash) ELSE hashes

\* The index when the validation step is over: the fingerprint was added
\* before self.validation_pipeline.validate was called and nothing takes it
\* out, whatever the call comes to.
HashesAfterValidation(hashes, code_hash, accepted) ==
    RecordHash(hashes, code_hash)

\* What one generate() call comes to.
\*   kind      "none" (return None), "tuple" (return the triple), "raise"
\*   ended     the place in generate() where the call ended
\*   validated the call reached self.validation_pipeline.validate(...)
GenOutcome(kind, exc, ended, code, instruction, tests, validated, hashes) ==
    [kind |-> kind, exc |-> exc, ended |-> ended, code |-> code,
     instruction |-> instruction, tests |-> tests, validated |-> validated,
     hashes |-> hashes]

\* The first exception the try block raises, "" for none: the instruction
\* is rendered first, then the assembled code, then the tests in order.
TryBlockError(pattern, context) ==
    LET texts == <<pattern.instruction, FullTemplateStr(pattern.components)>>
                   \o pattern.validation.unit_test_snippets
        bad   == { i \in 1..Len(texts) : RenderError(texts[i], context) # "" }
    IN  IF bad = {} THEN ""
        ELSE RenderError(texts[CHOOSE i \in bad : \A j \in bad : i <= j], context)

\* Variant: the fingerprint is recorded before the code is tested for
\* emptiness.
generate_HashesEmptyCode(hashes, validateFlag, pattern, skip_validation, inst, verdict) ==
    IF inst.raised # ""
    THEN GenOutcome("raise", inst.raised, "parameters", <<>>, <<>>, <<>>, FALSE, hashes)
    ELSE
    LET context == inst.context
        rendered_instruction == RenderTokens(pattern.instruction, context)
        full_code == Strip(RenderTokens(FullTemplateStr(pattern.components), context))
        rendered_tests ==
            [i \in 1..Len(pattern.validation.unit_test_snippets) |->
                RenderTokens(pattern.validation.unit_test_snippets[i], context)]
        code_hash == Md5HexDigest(Encode(
                        HashInput(full_code, rendered_instruction, rendered_tests)))
    IN  IF TryBlockError(pattern, context) # ""
        THEN GenOutcome("none", TryBlockError(pattern, context), "render",
                        <<>>, <<>>, <<>>, FALSE, hashes)
        ELSE IF full_code = <<>>
        THEN GenOutcome("none", "", "empty", <<>>, <<>>, <<>>, FALSE,
                        RecordHash(hashes, code_hash))
        ELSE IF code_hash \in hashes
        THEN GenOutcome("none", "", "duplicate", full_code, <<>>, <<>>, FALSE, hashes)
        ELSE IF validateFlag /\ ~skip_validation
        THEN IF ~CallBinds(PipelineValidateParams, 0, {"code", "tests"})
             THEN GenOutcome("raise", "TypeError", "validate", full_code, <<>>, <<>>,
                             TRUE, HashesAfterValidation(hashes, code_hash, FALSE))
             ELSE IF ~verdict
             THEN GenOutcome("none", "", "validate", full_code, <<>>, <<>>,
                             TRUE, HashesAfterValidation(hashes, code_hash, FALSE))
             ELSE GenOutcome("tuple", "", "return", full_code, rendered_instruction,
                             rendered_tests, TRUE,
                             HashesAfterValidation(hashes, code_hash, TRUE))
        ELSE GenOutcome("tuple", "", "return", full_code, rendered_instruction,
                        rendered_tests, FALSE, RecordHash(hashes, code_hash))

\* generate(pattern, skip_validation) on a generator whose fields are
\* generated_hashes = hashes and validate = validateFlag, when
\* _instantiate_parameters comes to inst and a pipeline that could be
\* called would answer verdict.
generate(hashes, validateFlag, pattern, skip_validation, inst, verdict) ==
    IF inst.raised # ""
    THEN GenOutcome("raise", inst.raised, "parameters", <<>>, <<>>, <<>>, FALSE, hashes)
    ELSE
    LET context == inst.context
        rendered_instruction == RenderTokens(pattern.instruction, context)
        full_code == Strip(RenderTokens(FullTemplateStr(pattern.components), context))
        rendered_tests ==
            [i \in 1..Len(pattern.validation.unit_test_snippets) |->
                RenderTokens(pattern.validation.unit_test_snippets[i], context)]
        code_hash == Md5HexDigest(Encode(
                        HashInput(full_code, rendered_instruction, rendered_tests)))
    IN  IF TryBlockError(pattern, context) # ""
        THEN GenOutcome("none", TryBlockError(pattern, context), "render",
                        <<>>, <<>>, <<>>, FALSE, hashes)
        ELSE IF full_code = <<>>
        THEN GenOutcome("none", "", "empty", <<>>, <<>>, <<>>, FALSE, hashes)
        ELSE IF code_hash \in hashes
        THEN GenOutcome("none", "", "duplicate", full_code, <<>>, <<>>, FALSE, hashes)
        ELSE IF validateFlag /\ ~skip_validation
        THEN IF ~CallBinds(PipelineValidateParams, 0, {"code", "tests"})
             THEN GenOutcome("raise", "TypeError", "validate", full_code, <<>>, <<>>,
                             TRUE, HashesAfterValidation(hashes, code_hash, FALSE))
             ELSE IF ~verdict
             THEN GenOutcome("none", "", "validate", full_code, <<>>, <<>>,
                             TRUE, HashesAfterValidation(hashes, code_hash, FALSE))
             ELSE GenOutcome("tuple", "", "return", full_code, rendered_instruction,
                             rendered_tests, TRUE,
                             HashesAfterValidation(hashes, code_hash, TRUE))
        ELSE GenOutcome("tuple", "", "return", full_code, rendered_instruction,
                        rendered_tests, FALSE, RecordHash(hashes, code_hash))

----------------------------------------------------------------------------
(* The patterns handed to the generator *)

Parameter(type, default, constraints) ==
    [type |-> type, default |-> default, constraints |-> constraints]

Components(imports, model_definition, data_setup, training_loop, evaluation) ==
    [imports |-> imports, model_definition |-> model_definition,
     data_setup |-> data_setup, training_loop |-> training_loop,
     evaluation |-> evaluation]

PLSEPattern(pattern_id, instruction, components, parameters, snippets) ==
    [pattern_id |-> pattern_id, instruction |-> instruction,
     components |-> components, parameters |-> parameters,
     validation |-> [unit_test_snippets |-> snippets]]

Imp   == Str(<<"import math">>)
Model == Str(<<"def square(x): return x * x">>)
Data  == Str(<<"data = [1]">>)
Train == Str(<<"y = square(2)">>)
Eval  == Str(<<"print(y)">>)

\* Patterns without parameters that differ in the components they have.
AssemblyPatterns ==
    { PLSEPattern("assembly", <<"Write code">>, c, <<>>, <<>>) :
        c \in { Components(Str(<<>>), None, None, None, None),
                Components(Imp, None, None, None, None),
                Components(Imp, Model, None, None, None),
                Components(Str(<<>>), Model, None, Train, None),
                Components(Str(<<>>), Model, None, None, Eval),
                Components(Str(<<>>), Model, Data, None, None),
                Components(Imp, Model, Data, Train, Eval),
                \* an empty string where None may stand
                Components(Imp, Str(<<>>), None, Train, None),
                \* white space only, and white space around the text
                Components(Str(<<>>), Str(<<" ">>), None, None, None),
                Components(Str(<<" ", "import math">>), None, None, None,
                           Str(<<"print(y)", " ">>)) } }

\* One pattern per shape of the parameter n.
ParameterShapes ==
    { Parameter("choice", 1, [options |-> <<1, 2>>]),
      Parameter("choice", 1, [options |-> <<>>]),
      Parameter("choice", 1, None),
      Parameter("choice", 1, <<>>),
      Parameter("choice", 1, [min |-> 0]),
      Parameter("int", 3, [min |-> 0]),
      Parameter("int", 2, [options |-> <<1>>]) }

ParameterPatterns ==
    { PLSEPattern("parameter", <<"Set x to", "{{n}}">>,
                  Components(Str(<<>>), Str(<<"x =", "{{n}}">>), None, None, None),
                  [n |-> prm], <<<<"assert x ==", "{{n}}">>>>) :
        prm \in ParameterShapes }

Bad == Str(<<"{%">>)

\* One pattern per field that holds a malformed template, and one whose
\* code raises when rendered.
MalformedPatterns ==
    { PLSEPattern("malformed", <<"{%">>, Components(Imp, Model, None, None, None),
                  <<>>, <<>>),
      PLSEPattern("malformed", <<"Write code">>,
                  Components(Imp, Model, None, None, None), <<>>,
                  << <<"assert x ==", "1">>, <<"{%">> >>),
      PLSEPattern("undefined", <<"Write code">>,
                  Components(Imp, Str(<<"x =", "{{n.a.b}}">>), None, None, None),
                  <<>>, <<>>) }
    \cup
    { PLSEPattern("malformed", <<"Write code">>, c, <<>>, <<>>) :
        c \in { Components(Bad, Model, None, None, None),
                Components(Imp, Bad, None, None, None),
                Components(Imp, Model, Bad, None, None),
                Components(Imp, Model, None, Bad, None),
                Components(Imp, Model, None, None, Bad) } }
    \cup
    \* a malformed template in a pattern whose parameter has no options
    { PLSEPattern("malformed", <<"{%">>, Components(Imp, Model, None, None, None),
                  [n |-> Parameter("choice", 1, [options |-> <<>>])], <<>>) }

\* The code of an assembly pattern under another instruction and with a
\* test snippet.
TwinPatterns ==
    { PLSEPattern("twin", <<"Square a number">>,
                  Components(Imp, Model, None, None, None), <<>>,
                  << <<"assert x ==", "1">> >>) }

Patterns ==
    AssemblyPatterns \cup ParameterPatterns \cup MalformedPatterns \cup TwinPatterns

----------------------------------------------------------------------------
(* The generator's operations *)

\* The code, instruction and tests an attempt rendered.
Attempt(pattern, inst, out) ==
    [code |-> out.code,
     instruction |-> RenderTokens(pattern.instruction, inst.context),
     tests |-> [i \in 1..Len(pattern.validation.unit_test_snippets) |->
                  RenderTokens(pattern.validation.unit_test_snippets[i],
                               inst.context)]]

\* The effect of generator.generate(p, skip_validation = skip).
DoGenerate(p, skip, inst, verdict) ==
    LET out == generate(generated_hashes, validate, p, skip, inst, verdict)
        reachedHashCheck == out.ended \in {"duplicate", "validate", "return"}
    IN  /\ generated_hashes' = out.hashes
        /\ genRet' = out
        /\ lastPattern' = p
        /\ lastSkip' = skip
        /\ lastInst' = inst
        /\ genCalls' = genCalls + 1
        /\ prevSeen' = seenCodes
        /\ prevAttempts' =
              IF genRet # None /\ genRet.ended \in {"duplicate", "validate", "return"}
              THEN prevAttempts \cup {Attempt(lastPattern, lastInst, genRet)}
              ELSE prevAttempts
        /\ prevRejected' =
              IF genRet # None /\ genRet.ended = "validate"
              THEN prevRejected \cup {genRet.code}
              ELSE prevRejected
        /\ seenCodes' = IF reachedHashCheck THEN seenCodes \cup {out.code}
                                            ELSE seenCodes
        /\ returnedCodes' = IF out.kind = "tuple"
                            THEN returnedCodes \cup {out.code}
                            ELSE returnedCodes
        /\ returnedTwice' = (returnedTwice
                               \/ (out.kind = "tuple" /\ out.code \in returnedCodes))
        /\ UNCHANGED validate

\* A caller invokes generator.generate(p, skip_validation = skip).
Generate(p, skip) ==
    /\ genCalls < MaxCalls
    /\ \E inst \in instantiate_parameters(p),
          verdict \in PipelineVerdicts(0, {"code", "tests"}) :
          DoGenerate(p, skip, inst, verdict)
    /\ exRet' = None
    /\ UNCHANGED <<dsVars, batchVars, lintVars, pipeVars, svVars, workerRet>>

\* Variant: a candidate generate() gave up on is returned as an example.
ExampleOutcome_ReturnsRejected(out, verdict) ==
    IF out.kind = "raise" THEN [kind |-> "raise", exc |-> out.exc, example |-> None]
    ELSE IF out.kind = "none"
    THEN [kind |-> "example", exc |-> "",
          example |-> [instruction |-> out.instruction, input |-> <<>>,
                       output |-> out.code]]
    ELSE IF ~CallBinds(PipelineValidateParams, 2, {})
    THEN [kind |-> "raise", exc |-> "TypeError", example |-> None]
    ELSE IF ~verdict THEN [kind |-> "none", exc |-> "", example |-> None]
    ELSE [kind |-> "example", exc |-> "",
          example |-> [instruction |-> out.instruction, input |-> <<>>,
                       output |-> out.code]]

\* What generate_example() makes of the outcome of generate(): an exception
\* passes through, None gives None, and a triple is handed to
\* self.pipeline.validate(code, tests).
ExampleOutcome(out, verdict) ==
    IF out.kind = "raise" THEN [kind |-> "raise", exc |-> out.exc, example |-> None]
    ELSE IF out.kind = "none" THEN [kind |-> "none", exc |-> "", example |-> None]
    ELSE IF ~CallBinds(PipelineValidateParams, 2, {})
    THEN [kind |-> "raise", exc |-> "TypeError", example |-> None]
    ELSE IF ~verdict THEN [kind |-> "none", exc |-> "", example |-> None]
    ELSE [kind |-> "example", exc |-> "",
          example |-> [instruction |-> out.instruction, input |-> <<>>,
                       output |-> out.code]]

\* TrainingDataGenerator.generate_example() when the registry yields p.  Its
\* generator is PLSEGenerator(), which validates.
GenerateExample(p) ==
    /\ validate
    /\ genCalls < MaxCalls
    /\ \E inst \in instantiate_parameters(p),
          verdict \in PipelineVerdicts(0, {"code", "tests"}) :
          /\ DoGenerate(p, FALSE, inst, verdict)
          /\ \E verdict2 \in PipelineVerdicts(2, {}) :
                exRet' = ExampleOutcome(
                            generate(generated_hashes, validate, p, FALSE, inst, verdict),
                            verdict2)
    /\ UNCHANGED <<dsVars, batchVars, lintVars, pipeVars, svVars, workerRet>>

\* TrainingDataGenerator.generate_example() when the registry is empty:
\* get_random() returns None.
GenerateExampleNoPattern ==
    /\ validate
    /\ exRet # [kind |-> "none", exc |-> "", example |-> None]
    /\ exRet' = [kind |-> "none", exc |-> "", example |-> None]
    /\ UNCHANGED <<dsVars, batchVars, lintVars, pipeVars, svVars, validate, generated_hashes, genCalls,
                   lastPattern, lastSkip, lastInst, genRet, prevSeen, seenCodes,
                   returnedCodes, returnedTwice, prevAttempts, workerRet,
                   prevRejected>>

\* The patterns the parallel linter's workers are handed.
WorkerPatterns ==
    TwinPatterns \cup
    { PLSEPattern("assembly", <<"Write code">>, c, <<>>, <<>>) :
        c \in { Components(Str(<<>>), None, None, None, None),
                Components(Imp, None, None, None, None),
                Components(Imp, Model, None, None, None),
                Components(Imp, Model, Data, Train, Eval) } }

\* check_single_pattern(pattern_tuple) in a pool worker: it constructs its
\* own PLSEGenerator(), which validates, and calls generate(pattern) once.
CheckSinglePattern(p) ==
    /\ workerRet = None
    /\ \E inst \in instantiate_parameters(p),
          verdict \in PipelineVerdicts(0, {"code", "tests"}) :
          workerRet' = generate(NewGeneratedHashes(generated_hashes), TRUE, p,
                                FALSE, inst, verdict)
    /\ UNCHANGED <<dsVars, batchVars, lintVars, pipeVars, svVars, validate, generated_hashes, genCalls,
                   lastPattern, lastSkip, lastInst, genRet, prevSeen, seenCodes,
                   returnedCodes, returnedTwice, prevAttempts, exRet, prevRejected>>

GenIdle ==
    /\ generated_hashes = {}
    /\ genCalls = 0
    /\ lastPattern = None
    /\ lastSkip = FALSE
    /\ lastInst = None
    /\ genRet = None
    /\ prevSeen = {}
    /\ seenCodes = {}
    /\ returnedCodes = {}
    /\ returnedTwice = FALSE
    /\ exRet = None
    /\ prevAttempts = {}
    /\ prevRejected = {}
    /\ workerRet = None

\* PLSEGenerator.__init__(validate)
GenInit ==
    /\ validate \in BOOLEAN
    /\ GenIdle

GenNext ==
    \/ \E p \in Patterns, skip \in BOOLEAN : Generate(p, skip)
    \/ \E p \in Patterns : GenerateExample(p)
    \/ GenerateExampleNoPattern

\* A generator, and pool workers of the parallel linter next to it.
WorkerNext ==
    \/ \E p \in WorkerPatterns, skip \in BOOLEAN : Generate(p, skip)
    \/ \E p \in WorkerPatterns : CheckSinglePattern(p)

----------------------------------------------------------------------------
(* CustomLinter.  A code text is the sequence of its lines, one statement  *)
(* a line.                                                                  *)

\* largest number of lines of a linted text
MaxStmts == 2

WildcardImport == "from os import *"
\* a line libcst cannot parse
Unparsable == "def f(:"
Stmts == {"import os", WildcardImport, "x = 1", Unparsable}
Sources == SeqsUpTo(Stmts, MaxStmts)

\* cst.parse_module(code) raises ParserSyntaxError
ParseModuleFails(code) == \E i \in 1..Len(code) : code[i] = Unparsable

LintViolation(line, column, code, message) ==
    [line |-> line, column |-> column, code |-> code, message |-> message]

\* NoWildcardImportRule.VIOLATION_MESSAGE (the source has back quotes
\* around the star)
VIOLATION_MESSAGE == "Wildcard import * is discouraged."

\* CustomLinter.__init__: self.rules
Rules == <<"NoWildcardImportRule">>

\* METADATA_DEPENDENCIES of a rule class.  Neither BaseLinterRule nor a
\* subclass declares any, so it is the empty tuple inherited from libcst.
MetadataDependencies(rule) == {}

\* add_violation(node, code, message) on a visitor of class rule that holds
\* violations, for a node at (line, column).  get_metadata raises KeyError
\* for a provider the class has not declared as a dependency.
add_violation(rule, violations, line, column, code, message) ==
    IF "PositionProvider" \notin MetadataDependencies(rule)
    THEN [raised |-> "KeyError", violations |-> violations]
    ELSE [raised |-> "", violations |->
            Append(violations, LintViolation(line, column, code, message))]

\* wrapper.visit(visitor) from line i on: the tree is walked in source
\* order and visit_ImportStar is called at the star of each wildcard import,
\* which stands at column 15 of its line.
RECURSIVE VisitFrom(_, _, _, _)
VisitFrom(rule, code, i, visitor) ==
    IF visitor.raised # "" \/ i > Len(code) THEN visitor
    ELSE IF rule = "NoWildcardImportRule" /\ code[i] = WildcardImport
    THEN VisitFrom(rule, code, i + 1,
                   add_violation(rule, visitor.violations, i, 15, "PLSE101",
                                 VIOLATION_MESSAGE))
    ELSE VisitFrom(rule, code, i + 1, visitor)

\* visitor = RuleClass(template_vars=template_vars); wrapper.visit(visitor)
Visit(rule, code) == VisitFrom(rule, code, 1, [raised |-> "", violations |-> <<>>])

\* for RuleClass in self.rules: ...; all_violations.extend(visitor.violations)
RECURSIVE RunRules(_, _, _)
RunRules(code, k, all_violations) ==
    IF k > Len(Rules) THEN [raised |-> "", violations |-> all_violations]
    ELSE IF Visit(Rules[k], code).raised # ""
    THEN [raised |-> Visit(Rules[k], code).raised, violations |-> <<>>]
    ELSE RunRules(code, k + 1, all_violations \o Visit(Rules[k], code).violations)

\* CustomLinter.run(code): the list it returns, or the exception it raises.
\* Only parse_module and MetadataWrapper are inside the try block.
run(code) ==
    IF ParseModuleFails(code) THEN [raised |-> "", violations |-> <<>>]
    ELSE RunRules(code, 1, <<>>)

\* A caller invokes CustomLinter().run(code).
Lint_Run(code) ==
    /\ lintPrevCode' = lintCode
    /\ lintPrevRet' = lintRet
    /\ lintCode' = Str(code)
    /\ lintRet' = run(code)
    /\ UNCHANGED <<dsVars, batchVars, pipeVars, svVars, genVars>>

LintIdle ==
    /\ lintCode = None
    /\ lintRet = None
    /\ lintPrevCode = None
    /\ lintPrevRet = None

LintNext == \E code \in Sources : Lint_Run(code)

----------------------------------------------------------------------------
(* PLSEGenerator.generate_batch *)

\* largest count argument of generate_batch
MaxCount == 3

\* The patterns generate_batch is called with.
BatchPatterns ==
    TwinPatterns \cup
    { PLSEPattern("assembly", <<"Write code">>, c, <<>>, <<>>) :
        c \in { Components(Str(<<>>), None, None, None, None),
                Components(Imp, Model, None, None, None),
                Components(Imp, Bad, None, None, None) } }
    \cup
    { PLSEPattern("parameter", <<"Set x to", "{{n}}">>,
                  Components(Str(<<>>), Str(<<"x =", "{{n}}">>), None, None, None),
                  [n |-> prm], <<<<"assert x ==", "{{n}}">>>>) :
        prm \in { Parameter("choice", 1, [options |-> <<1, 2>>]),
                  Parameter("choice", 1, [options |-> <<>>]) } }

\* skip_validation = (i > 0) if validate_sample else True
SkipValidation(i, validate_sample) == IF validate_sample THEN i > 0 ELSE TRUE

\* The locals of generate_batch after the turn of the loop in which
\* generate() came to out: attempts made, the turns that reached the
\* validation step, samples, and the generator's index.
BatchAfter(b, i, out) ==
    [kind |-> IF out.kind = "raise" THEN "raise" ELSE "loop",
     exc |-> out.exc,
     attempts |-> b.attempts + 1,
     validated |-> IF out.validated THEN b.validated \cup {i} ELSE b.validated,
     samples |-> IF out.kind = "tuple"
                 THEN Append(b.samples, [code |-> out.code,
                                         instruction |-> out.instruction,
                                         tests |-> out.tests])
                 ELSE b.samples,
     seen |-> IF out.ended \in {"duplicate", "validate", "return"}
              THEN b.seen \cup {out.code} ELSE b.seen,
     hashes |-> out.hashes]

\* for i in range(count): ... from turn i on; the set of the ways the call
\* may end.  An exception of generate() leaves the loop and the call.
RECURSIVE BatchFrom(_, _, _, _, _, _)
BatchFrom(validateFlag, pattern, count, validate_sample, i, b) ==
    IF b.kind = "raise" THEN {b}
    ELSE IF i >= count THEN {[b EXCEPT !.kind = "list"]}
    ELSE UNION { BatchFrom(validateFlag, pattern, count, validate_sample, i + 1,
                           BatchAfter(b, i,
                               generate(b.hashes, validateFlag, pattern,
                                        SkipValidation(i, validate_sample),
                                        inst, verdict))) :
                   inst \in instantiate_parameters(pattern),
                   verdict \in PipelineVerdicts(0, {"code", "tests"}) }

\* generate_batch(pattern, count, validate_sample) on a generator whose
\* fields are generated_hashes = hashes and validate = validateFlag.
generate_batch(hashes, validateFlag, pattern, count, validate_sample) ==
    BatchFrom(validateFlag, pattern, count, validate_sample, 0,
              [kind |-> "loop", exc |-> "", attempts |-> 0, validated |-> {},
               samples |-> <<>>, seen |-> {}, hashes |-> hashes])

\* A caller invokes generator.generate_batch(p, count, validate_sample).
GenerateBatch(p, count, validate_sample) ==
    /\ \E b \in generate_batch(generated_hashes, validate, p, count, validate_sample) :
          /\ batchRet' = [count |-> count, validate_sample |-> validate_sample,
                          outcome |-> b]
          /\ generated_hashes' = b.hashes
          /\ seenCodes' = seenCodes \cup b.seen
    /\ UNCHANGED <<dsVars, lintVars, pipeVars, svVars, validate, genCalls,
                   lastPattern, lastSkip, lastInst, genRet, prevSeen,
                   returnedCodes, returnedTwice, exRet, prevAttempts, workerRet,
                   prevRejected>>

BatchIdle == batchRet = None

BatchNext ==
    \E p \in BatchPatterns, count \in 0..MaxCount, validate_sample \in BOOLEAN :
        GenerateBatch(p, count, validate_sample)

----------------------------------------------------------------------------
(* TrainingDataGenerator.generate_dataset *)

\* largest n_examples argument of generate_dataset
MaxExamples == 2

\* max_attempts = n_examples * 200
AttemptsPerExample == 200

\* The ways a generate_example() call ends: it returns an example, returns
\* None, or raises.
ExampleKinds == {"example", "none", "raise"}

\* Variant: the loop goes on while len(examples) <= n_examples.
LoopContinues_OffByOne(examples, attempts, n) ==
    examples <= n /\ attempts < n * AttemptsPerExample

\* while len(examples) < n_examples and attempts < max_attempts
LoopContinues(examples, attempts, n) ==
    examples < n /\ attempts < n * AttemptsPerExample

\* A caller invokes generate_dataset(n, output_file).
Dataset_Call(n) ==
    /\ dsPc \in {"idle", "done", "raised"}
    /\ dsN' = n
    /\ dsExamples' = 0
    /\ dsAttempts' = 0
    /\ dsWritten' = "no"
    /\ dsPc' = "loop"
    /\ UNCHANGED <<batchVars, lintVars, pipeVars, svVars, genVars>>

\* One turn of the loop: generate_example() is called; an example is
\* appended; attempts += 1.  An exception leaves generate_dataset.
Dataset_Attempt ==
    /\ dsPc = "loop"
    /\ LoopContinues(dsExamples, dsAttempts, dsN)
    /\ \E kind \in ExampleKinds :
          IF kind = "raise"
          THEN dsPc' = "raised" /\ UNCHANGED <<dsExamples, dsAttempts>>
          ELSE /\ dsExamples' = IF kind = "example" THEN dsExamples + 1
                                                    ELSE dsExamples
               /\ dsAttempts' = dsAttempts + 1
               /\ dsPc' = "loop"
    /\ UNCHANGED <<dsN, dsWritten, batchVars, lintVars, pipeVars, svVars, genVars>>

\* The loop condition is false.
Dataset_LoopExit ==
    /\ dsPc = "loop"
    /\ ~LoopContinues(dsExamples, dsAttempts, dsN)
    /\ dsPc' = "write"
    /\ UNCHANGED <<dsN, dsExamples, dsAttempts, dsWritten, batchVars, lintVars,
                   pipeVars, svVars, genVars>>

\* The examples are written to the output file; IOError is caught.
Dataset_Write ==
    /\ dsPc = "write"
    /\ dsWritten' \in {"written", "IOError"}
    /\ dsPc' = "done"
    /\ UNCHANGED <<dsN, dsExamples, dsAttempts, batchVars, lintVars, pipeVars,
                   svVars, genVars>>

DatasetIdle ==
    /\ dsPc = "idle"
    /\ dsN = 0
    /\ dsExamples = 0
    /\ dsAttempts = 0
    /\ dsWritten = "no"

\* The steps generate_dataset takes by itself once it was called.
DatasetSteps == Dataset_Attempt \/ Dataset_LoopExit \/ Dataset_Write

DatasetNext ==
    \/ \E n \in 0..MaxExamples : Dataset_Call(n)
    \/ Dataset_Attempt
    \/ Dataset_LoopExit
    \/ Dataset_Write

----------------------------------------------------------------------------
(* The pipeline and the sandbox, called with arbitrary candidates *)

PipeInit ==
    /\ usePylint \in BOOLEAN
    /\ cand = None
    /\ pipePc = "idle"
    /\ pipeIdx = 1
    /\ stageLog = <<>>
    /\ pipeRet = None
    /\ ppc = "idle"
    /\ child = "none"
    /\ chanBuf = <<>>
    /\ chanPipe = <<>>
    /\ sigterm = FALSE
    /\ reaped = FALSE
    /\ plog = <<>>
    /\ execLog = <<>>
    /\ svCode = None
    /\ svRet = None
    /\ revalidating = FALSE
    /\ atDeadline = "none"

PipeIdle == PipeInit /\ ~usePylint

ChildNext ==
    \/ Child_ExecReturns
    \/ Child_ExecRaises
    \/ Child_Dies
    \/ Child_Flush
    \/ Child_Exit
    \/ Child_Killed
    \/ Child_IgnoresSigterm

ParentNext ==
    \/ SV_JoinExited
    \/ SV_JoinDeadline
    \/ SV_IsAlive
    \/ SV_Terminate
    \/ SV_Join
    \/ SV_GetNowait

PipeNext ==
    \/ \E c \in Candidates : Pipe_Call(c)
    \/ Pipe_StaticStage
    \/ Pipe_SandboxStage
    \/ Pipe_SandboxReturn
    \/ Pipe_Return
    \/ Pipe_Revalidate
    \/ \E code \in Codes : SV_Call(code)
    \/ ParentNext
    \/ ChildNext

\* The pipeline and the sandbox under arbitrary callers.
Init == PipeInit /\ validate = TRUE /\ GenIdle /\ LintIdle /\ BatchIdle /\ DatasetIdle
Next == PipeNext
Spec == Init /\ [][Next]_vars

\* One generator under arbitrary callers.
GenSpecInit == GenInit /\ PipeIdle /\ LintIdle /\ BatchIdle /\ DatasetIdle
GenSpec == GenSpecInit /\ [][GenNext]_vars
WorkerSpec == GenSpecInit /\ [][WorkerNext]_vars

LintInit ==
    LintIdle /\ PipeIdle /\ validate = TRUE /\ GenIdle /\ BatchIdle /\ DatasetIdle
LintSpec == LintInit /\ [][LintNext]_vars

\* One generator whose generate_batch is called.
BatchSpec == GenSpecInit /\ [][BatchNext]_vars

\* generate_dataset; the interpreter keeps running it once it was called.
DatasetSpec == LintInit /\ [][DatasetNext]_vars /\ WF_vars(DatasetSteps)

\* The operating system schedules both processes: a parent step or a child
\* step that stays possible is eventually taken.  `for` loops and returns
\* of the pipeline run in the parent as well.
PipeSteps ==
    Pipe_StaticStage \/ Pipe_SandboxStage \/ Pipe_SandboxReturn \/ Pipe_Return

FairSpec ==
    /\ Init /\ [][Next]_vars
    /\ WF_vars(ParentNext) /\ WF_vars(ChildNext) /\ WF_vars(PipeSteps)

----------------------------------------------------------------------------
(* Properties of the pipeline and the sandbox *)

NoResultDiag ==
    Diag("Execution error", "Process finished but no result was returned.", 0)

\* C1: the pipeline is fail-fast.  No validator is invoked after one has
\* reported failure; a rejected outcome is the result of the last validator
\* invoked and carries that validator's diagnostics only; a candidate that
\* does not parse is rejected with the syntax diagnostic alone, whatever its
\* style findings, and is never handed to the sandbox.
C1_FailFast ==
    /\ \A i \in 1..(Len(stageLog) - 1) : stageLog[i].result.valid
    /\ (pipePc = "done" /\ ~pipeRet.valid) =>
          /\ stageLog # <<>>
          /\ pipeRet = stageLog[Len(stageLog)].result
          /\ stageLog[Len(stageLog)].stage # "SafeExecutionValidator" =>
                pipeRet = StaticValidate(stageLog[Len(stageLog)].stage, cand.code)
    /\ (pipePc # "idle" /\ ~cand.code.syntax /\ stageLog # <<>>) =>
          /\ Len(stageLog) = 1
          /\ stageLog[1].stage = "SyntaxValidator"
          /\ pipePc = "done"
          /\ pipeRet.errors = <<Diag("Syntax error", "", 0)>>
          /\ execLog = <<>>
          /\ child = "none"

C1_Witness ==
    /\ pipePc = "done"
    /\ ~cand.code.syntax /\ cand.code.style > 0
    /\ pipeRet.errors = <<Diag("Syntax error", "", 0)>>
    /\ Len(stageLog) = 1

\* C2 (as claimed): a candidate is accepted only when, after the main code,
\* each of its test snippets was executed in the sandbox and passed.
C2_TestsExecuted ==
    (pipePc = "done" /\ pipeRet.valid) =>
        /\ Len(execLog) = 1 + Len(cand.tests)
        /\ \A i \in 1..Len(cand.tests) : cand.tests[i] = "pass"

\* C5: when SafeExecutionValidator.validate has returned, the child has
\* exited and the parent has collected it; the timeout result is returned
\* only after join-with-timeout, is_alive, terminate, join, in that order.
C5_ChildReaped ==
    ppc = "returned" =>
        /\ child = "exited"
        /\ reaped
        /\ svRet = TimeoutResult(svCode) <=>
             plog = <<"start", "join_timeout", "is_alive", "terminate", "join">>
        /\ svRet # TimeoutResult(svCode) <=>
             plog = <<"start", "join_timeout", "is_alive", "get_nowait">>

C5_Witness ==
    /\ ppc = "returned"
    /\ svCode.run = "loop"
    /\ svRet = TimeoutResult(svCode)
    /\ child = "exited" /\ reaped

\* C6 (as claimed): every started execution eventually returns an outcome,
\* whatever the candidate does.
C6_AlwaysReturns ==
    (ppc = "join_timeout") ~> (ppc = "returned")

\* The candidates whose child ends without putting anything on the queue.
PostsNothing(code) ==
    \/ code.run = "die"
    \/ code.run = "raise" /\ ~code.exc.isException

\* C7: when the child has exited without posting and the parent found it
\* exited, the outcome is the rejected "no result" outcome; and an execution
\* of such a candidate always returns.
C7_NoResultRejected ==
    /\ [](  (/\ ppc = "returned"
             /\ PostsNothing(svCode)
             /\ plog[Len(plog)] = "get_nowait")
          => (/\ ~svRet.valid
              /\ svRet.errors = <<NoResultDiag>>
              /\ svRet.code = svCode))
    /\ ((ppc = "join_timeout" /\ PostsNothing(svCode)) ~> (ppc = "returned"))

C7_Witness ==
    /\ ppc = "returned"
    /\ svCode.run = "raise" /\ svCode.exc.type = "SystemExit"
    /\ plog[Len(plog)] = "get_nowait"
    /\ svRet.errors = <<NoResultDiag>>

\* The pieces a diagnostic's text is formatted from.
DiagParts(d) == {d.kind, d.text}

\* C11 (as claimed): when the candidate raised a fault inside the sandbox
\* and the parent read it from the queue, the rejected outcome has one
\* diagnostic, which carries the fault's type name and its message.
C11_FaultDiagNamesType ==
    (/\ ppc = "returned"
     /\ svCode.run = "raise" /\ svCode.exc.isException
     /\ plog[Len(plog)] = "get_nowait")
    => (/\ ~svRet.valid
        /\ Len(svRet.errors) = 1
        /\ svCode.exc.msg \in DiagParts(svRet.errors[1])
        /\ svCode.exc.type \in DiagParts(svRet.errors[1]))

\* C12: a pipeline invocation in which every validator invoked reported
\* success returns accepted, with the code that was passed in and with no
\* diagnostics, and every validator of the list was invoked.
C12_AllStagesPass ==
    (/\ pipePc = "done"
     /\ \A i \in 1..Len(stageLog) : stageLog[i].result.valid)
    => (/\ pipeRet.valid
        /\ pipeRet.code = cand.code
        /\ pipeRet.errors = <<>>
        /\ Len(stageLog) = IF usePylint THEN 4 ELSE 3)

C12_Witness ==
    /\ pipePc = "done"
    /\ usePylint
    /\ Len(stageLog) = 4
    /\ \A i \in 1..4 : stageLog[i].result.valid
    /\ pipeRet = [valid |-> TRUE, code |-> cand.code, errors |-> <<>>]

\* C14 (as claimed): when the code of an accepted outcome is passed through
\* the pipeline again with the same tests, the outcome is accepted again,
\* with no diagnostics.
C14_AcceptanceIdempotent ==
    (revalidating /\ pipePc = "done") =>
        (pipeRet.valid /\ pipeRet.errors = <<>>)

\* The order of the stages: syntax check, style check, the deep-lint stage
\* when it is enabled, sandboxed execution.
StageOrder ==
    IF usePylint
    THEN <<"SyntaxValidator", "Flake8Validator", "PylintValidator",
           "SafeExecutionValidator">>
    ELSE <<"SyntaxValidator", "Flake8Validator", "SafeExecutionValidator">>

\* C18: within one pipeline invocation the validators that have returned
\* are, in order, the first stages of the fixed order; no stage is invoked
\* twice; the sandbox runs once at most, after every static stage has
\* returned, and nothing runs after it; no stage is in progress while the
\* loop is between validators; an accepted outcome has gone through every
\* stage.
C18_StageOrder ==
    /\ Len(stageLog) <= Len(StageOrder)
    /\ \A i \in 1..Len(stageLog) : stageLog[i].stage = StageOrder[i]
    /\ pipePc # "idle" => Len(execLog) <= 1
    /\ (pipePc # "idle" /\ execLog # <<>>) =>
          /\ Len(stageLog) >= Len(StageOrder) - 1
          /\ \A i \in 1..(Len(StageOrder) - 1) : stageLog[i].result.valid
    /\ pipePc = "sandbox" => Len(stageLog) = Len(StageOrder) - 1
    /\ pipePc = "loop" => (ppc = "idle" /\ ~ChildAlive)
    /\ (pipePc = "done" /\ pipeRet.valid) => Len(stageLog) = Len(StageOrder)

C18_Witness ==
    /\ pipePc = "done"
    /\ usePylint
    /\ Len(stageLog) = 4
    /\ stageLog[3].stage = "PylintValidator"
    /\ stageLog[4].stage = "SafeExecutionValidator"
    /\ ~pipeRet.valid
    /\ execLog = <<"main">>

\* The deadline did not expire while exec() was running: the child had
\* exited, or had left exec() and was writing its result or exiting.
FinishedBeforeDeadline == atDeadline \in {"none", "flush", "flushed"}

\* C20 (as claimed): a candidate whose code left exec() before the deadline
\* is never reported as a timeout: code that completed gives success, code
\* that raised gives that fault, whatever the size of the posted result.
C20_FinishedNeverTimeout ==
    (ppc = "returned" /\ FinishedBeforeDeadline) =>
        /\ svCode.run = "ok" => svRet = ValidationResult(TRUE, svCode, <<>>)
        /\ (svCode.run = "raise" /\ svCode.exc.isException) =>
              (~svRet.valid /\ svRet # TimeoutResult(svCode))

\* An outcome for the input code: accepted with no diagnostics, or rejected
\* with at least one, and carrying the input code.
WellFormedOutcome(r, code) ==
    /\ r.code = code
    /\ r.valid => r.errors = <<>>
    /\ ~r.valid => r.errors # <<>>

\* The number of diagnostics a rejecting stage may give.
AllowedCounts(stage) ==
    CASE stage = "SyntaxValidator" -> {1}
      [] stage = "Flake8Validator" -> 1..5
      [] stage = "PylintValidator" -> 1..3
      [] stage = "SafeExecutionValidator" -> {1}

\* C25: every outcome a validator returned, and every outcome the pipeline
\* returned, carries the input code, has no diagnostics when accepted and
\* at least one when rejected: one from the syntax stage and the sandbox,
\* at most five from the style stage, at most three from the deep-lint
\* stage.
C25_OutcomeShape ==
    /\ \A i \in 1..Len(stageLog) :
          /\ WellFormedOutcome(stageLog[i].result, cand.code)
          /\ ~stageLog[i].result.valid =>
                Len(stageLog[i].result.errors) \in AllowedCounts(stageLog[i].stage)
    /\ svRet # None =>
          /\ WellFormedOutcome(svRet, svCode)
          /\ ~svRet.valid => Len(svRet.errors) = 1
    /\ pipePc = "done" =>
          /\ WellFormedOutcome(pipeRet, cand.code)
          /\ Len(pipeRet.errors) <= 5

C25_Witness ==
    /\ pipePc = "done"
    /\ cand.code.style > 5
    /\ Len(stageLog) = 2
    /\ stageLog[2].stage = "Flake8Validator"
    /\ Len(pipeRet.errors) = 5

----------------------------------------------------------------------------
(* Properties of the generator *)

\* The assembly the design describes: imports, data-setup, model
\* definition, training logic, evaluation.
CanonicalParts(components) ==
    <<components.imports,
      components.data_setup,
      components.model_definition,
      components.training_loop,
      components.evaluation>>

\* C3 (as claimed): the code of every candidate is the non-empty components
\* in the order imports, data-setup, model definition, training logic,
\* evaluation, joined by a blank line, rendered and trimmed.
C3_CanonicalOrder ==
    (genRet # None /\ genRet.kind = "tuple") =>
        genRet.code =
            Strip(RenderTokens(Join(FilterNone(CanonicalParts(lastPattern.components))),
                               lastInst.context))

ReachedHashCheck == genRet # None /\ genRet.ended \in {"duplicate", "validate", "return"}

\* C4: a call that reaches the hash check is rejected as a duplicate exactly
\* when an earlier call of this generator reached it with the same code
\* text, and then it returns None; the fingerprint of every text that
\* reached the check is in the index, and stays there; no text is returned
\* twice.
C4_Dedup ==
    /\ ReachedHashCheck =>
          /\ (genRet.ended = "duplicate") <=> (genRet.code \in prevSeen)
          /\ (genRet.ended = "duplicate") => (genRet.kind = "none")
    /\ \A code \in seenCodes : Md5HexDigest(Encode(code)) \in generated_hashes
    /\ Cardinality(generated_hashes) = Cardinality(seenCodes)
    /\ ~returnedTwice

C4_Witness ==
    /\ genCalls = 2
    /\ genRet.ended = "duplicate"
    /\ genRet.code \in returnedCodes

HasEmptyOptions(pattern) ==
    \E name \in DOMAIN pattern.parameters :
        /\ pattern.parameters[name].type = "choice"
        /\ pattern.parameters[name].constraints # None
        /\ "options" \in DOMAIN pattern.parameters[name].constraints
        /\ pattern.parameters[name].constraints.options = <<>>

\* C8 (as claimed): a choice parameter whose option list is empty resolves
\* to its default, and instantiation does not fail.
C8_EmptyOptionsFallBack ==
    (lastPattern # None /\ HasEmptyOptions(lastPattern)) =>
        /\ lastInst.raised = ""
        /\ \A name \in DOMAIN lastPattern.parameters :
              lastPattern.parameters[name].type = "choice"
                 => lastInst.context[name] = lastPattern.parameters[name].default

\* C9 (as claimed): no generate() call and no generate_example() call ends
\* by raising.
C9_NothingEscapes ==
    /\ genRet # None => genRet.kind # "raise"
    /\ exRet # None => exRet.kind # "raise"

ComponentTexts(components) ==
    { c.text : c \in { components.imports, components.model_definition,
                       components.data_setup, components.training_loop,
                       components.evaluation } \ {None} }

HasMalformedField(pattern) ==
    \/ FromStringFails(pattern.instruction)
    \/ \E text \in ComponentTexts(pattern.components) : FromStringFails(text)
    \/ \E i \in 1..Len(pattern.validation.unit_test_snippets) :
          FromStringFails(pattern.validation.unit_test_snippets[i])

\* C10 (as claimed): a call whose pattern has a malformed template in some
\* field returns None, without invoking the validation pipeline.
C10_MalformedAborts ==
    (lastPattern # None /\ HasMalformedField(lastPattern)) =>
        /\ genRet.kind = "none"
        /\ ~genRet.validated

\* C13: generate_example() returns an example only for a candidate that
\* generate() returned after its validation pipeline accepted it, and the
\* example's output is that candidate's code; a candidate generate() gave
\* up on, as a duplicate or at any other place, is never returned.
C13_OnlyAcceptedReturned ==
    /\ (exRet # None /\ exRet.kind = "example") =>
          /\ genRet.kind = "tuple"
          /\ genRet.validated
          /\ exRet.example.output = genRet.code
    /\ (exRet # None /\ genRet # None /\ genRet.kind # "tuple") =>
          exRet.example = None

C13_Witness ==
    /\ exRet # None /\ genRet # None
    /\ genRet.ended = "duplicate"
    /\ exRet = [kind |-> "none", exc |-> "", example |-> None]

\* The values the design allows for a parameter: a member of the option
\* list of a choice parameter, the default when there is none to choose
\* from, the default for every other kind.
ClaimedValues(param) ==
    IF /\ param.type = "choice"
       /\ param.constraints # None
       /\ "options" \in DOMAIN param.constraints
       /\ param.constraints.options # <<>>
    THEN Range(param.constraints.options)
    ELSE {param.default}

\* C15 (as claimed): _instantiate_parameters returns a context with one
\* entry per declared parameter, each entry a value the design allows.
C15_ContextCoversParameters ==
    lastInst # None =>
        /\ lastInst.raised = ""
        /\ DOMAIN lastInst.context = DOMAIN lastPattern.parameters
        /\ \A name \in DOMAIN lastPattern.parameters :
              lastInst.context[name] \in ClaimedValues(lastPattern.parameters[name])

\* C16: an attempt that reaches the hash check is a duplicate exactly when
\* an earlier attempt had the same code text, whatever the instructions and
\* tests of the two are.
C16_FingerprintCodeOnly ==
    ReachedHashCheck =>
        /\ (\E a \in prevAttempts : a.code = genRet.code)
              => genRet.ended = "duplicate"
        /\ (\A a \in prevAttempts : a.code # genRet.code)
              => genRet.ended # "duplicate"

C16_Witness ==
    /\ ReachedHashCheck
    /\ genRet.ended = "duplicate"
    /\ prevAttempts # {}
    /\ \A a \in prevAttempts :
          /\ a.code = genRet.code
          /\ a.instruction # Attempt(lastPattern, lastInst, genRet).instruction
          /\ a.tests # Attempt(lastPattern, lastInst, genRet).tests

\* C17: a freshly constructed generator never reports a duplicate on its
\* first call, also for a text another generator has admitted; what it
\* admits goes into its own index only.
C17_FreshIndex ==
    /\ workerRet # None =>
          /\ workerRet.ended # "duplicate"
          /\ workerRet.ended \in {"validate", "return"} =>
                workerRet.hashes = {Md5HexDigest(Encode(workerRet.code))}
    /\ generated_hashes = { Md5HexDigest(Encode(code)) : code \in seenCodes }

C17_Witness ==
    /\ workerRet # None
    /\ workerRet.code \in seenCodes
    /\ workerRet.ended = "validate"
    /\ Md5HexDigest(Encode(workerRet.code)) \in workerRet.hashes

\* C21: the fingerprint of a text whose validation did not end in
\* acceptance is in the index and stays there; a later call that renders
\* the same text ends at the duplicate check, returns None and does not
\* reach the validation step; such a text is never returned.
C21_RejectedStaysIndexed ==
    /\ (genRet # None /\ genRet.ended = "validate") =>
          /\ genRet.kind # "tuple"
          /\ Md5HexDigest(Encode(genRet.code)) \in generated_hashes
    /\ \A code \in prevRejected :
          /\ Md5HexDigest(Encode(code)) \in generated_hashes
          /\ code \notin returnedCodes
    /\ (ReachedHashCheck /\ genRet.code \in prevRejected) =>
          /\ genRet.ended = "duplicate"
          /\ genRet.kind = "none"
          /\ ~genRet.validated

C21_Witness ==
    /\ ReachedHashCheck
    /\ genRet.code \in prevRejected
    /\ lastSkip
    /\ genRet.ended = "duplicate"

\* C22: a generate() call that ends before the duplicate check leaves the
\* index as it was; a call that reaches the check with a text no earlier
\* call of the generator reached it with adds that text's fingerprint, and
\* nothing else, to the index; every other call leaves the index as it was.
C22_IndexFrame ==
    [][ genCalls' # genCalls =>
          LET reached == genRet'.ended \in {"duplicate", "validate", "return"}
              fresh   == reached /\ genRet'.code \notin seenCodes
          IN  /\ ~reached => generated_hashes' = generated_hashes
              /\ fresh =>
                    /\ Md5HexDigest(Encode(genRet'.code)) \notin generated_hashes
                    /\ generated_hashes' =
                          generated_hashes \cup {Md5HexDigest(Encode(genRet'.code))}
              /\ ~fresh => generated_hashes' = generated_hashes ]_vars

C22_Witness ==
    /\ genRet # None
    /\ genRet.ended \in {"render", "empty"}
    /\ generated_hashes # {}
    /\ genCalls = 2

\* C23 (as claimed): generate_batch returns a list after exactly count
\* attempts; no attempt but attempt 0 reaches the validation step, and none
\* at all with validate_sample = False; the list has at most count samples
\* and no two of them have the same code.
C23_BatchAttempts ==
    batchRet # None =>
        /\ batchRet.outcome.kind = "list"
        /\ batchRet.outcome.attempts = batchRet.count
        /\ batchRet.outcome.validated \subseteq
              (IF batchRet.validate_sample THEN {0} ELSE {})
        /\ Len(batchRet.outcome.samples) <= batchRet.count
        /\ \A i, j \in 1..Len(batchRet.outcome.samples) :
              i # j => batchRet.outcome.samples[i].code
                         # batchRet.outcome.samples[j].code

----------------------------------------------------------------------------
(* Properties of the linter *)

\* One violation per wildcard import of the text, in source order.
RECURSIVE ExpectedViolations(_, _)
ExpectedViolations(code, i) ==
    IF i > Len(code) THEN <<>>
    ELSE (IF code[i] = WildcardImport
          THEN <<LintViolation(i, 15, "PLSE101", VIOLATION_MESSAGE)>>
          ELSE <<>>) \o ExpectedViolations(code, i + 1)

\* C19 (as claimed): run() returns one LintViolation per violation found,
\* in order, and the empty list for text that cannot be parsed; it never
\* raises; two runs on the same text return equal lists.
C19_LinterReturnsViolations ==
    lintRet # None =>
        /\ lintRet.raised = ""
        /\ lintRet.violations =
              IF ParseModuleFails(lintCode.text) THEN <<>>
              ELSE ExpectedViolations(lintCode.text, 1)
        /\ lintPrevCode = lintCode => lintPrevRet = lintRet

----------------------------------------------------------------------------
(* Properties of generate_dataset *)

\* C24: generate_dataset never makes more than n_examples * 200 attempts
\* and never holds more than n_examples examples or more examples than
\* attempts; it leaves the loop only with n_examples examples or with all
\* attempts used; and once called it ends, by returning or by the exception
\* of a generate_example() call.
C24_DatasetTerminates ==
    /\ [](/\ dsAttempts <= dsN * 200
          /\ dsExamples <= dsN
          /\ dsExamples <= dsAttempts
          /\ dsPc \in {"write", "done"} =>
                (dsExamples = dsN \/ dsAttempts = dsN * 200))
    /\ ((dsPc = "loop") ~> (dsPc \in {"done", "raised"}))

C24_Witness ==
    /\ dsPc = "done"
    /\ dsN = 2
    /\ dsExamples = 1
    /\ dsAttempts = 400

====
